---- MODULE Spec2Model ----
(***************************************************************************)
(* A model of simpleais/tools.py: the aggregation classes behind the       *)
(* `info` command (Fields, SenderInfo, MaxMin, GeoInfo, SentencesInfo,     *)
(* Bucketer, DensityMap) and the `info` command itself.                    *)
(*                                                                         *)
(* Conventions.                                                            *)
(*  - Python's None is the empty tuple; a present value v is <<v>>.        *)
(*  - A text (str) is a sequence of one-character strings.                 *)
(*  - A dict is a function whose DOMAIN is the set of keys.                *)
(*  - Coordinates are whole degrees.  The bin edges numpy.linspace builds  *)
(*    are rationals; they are kept as integer numerators over one common   *)
(*    denominator, so that every comparison is exact.                      *)
(***************************************************************************)
EXTENDS Integers, Sequences, FiniteSets

VARIABLES
    \* ---- the info command ----
    individual,      \* option --individual
    show_map,        \* option --map
    stream,          \* the sentences the source has yielded so far
    sentences_info,  \* SentencesInfo()
    sender_info,     \* defaultdict(SenderInfo)
    map_info,        \* DensityMap()
    pc,              \* position in the command / in the harness
    status,          \* "running", "exit0", or the uncaught exception
    sink,            \* "open", or "broken" once a print raised BrokenPipeError
    out,             \* the lines printed so far
    todo,            \* the lines the report in progress has still to print
    keys,            \* the sender keys the report loop has still to visit
    \* ---- one MaxMin ----
    tracker,         \* a MaxMin()
    fed,             \* the values given to tracker.add
    \* ---- one Bucketer ----
    bucketer,        \* a Bucketer(min_val, max_val, bucket_count)
    bcall,           \* None, or <<[value, result]>> of the last bucket() call
    \* ---- one DensityMap ----
    counts,          \* None, or <<to_counts()>>
    text             \* None, or <<to_text()>>

infoVars == <<individual, show_map, stream, sentences_info, sender_info,
              map_info, pc, status, sink, out, todo, keys>>
trackerVars == <<tracker, fed>>
bucketerVars == <<bucketer, bcall>>
mapVars == <<counts, text>>
vars == <<infoVars, trackerVars, bucketerVars, mapVars>>

----------------------------------------------------------------------------
(* Bounds of the model *)

MaxSentences == 2      \* sentences read by info
MaxFed == 3            \* values fed to one MaxMin
MaxValue == 2          \* MaxMin values range over -MaxValue..MaxValue
MaxCoord == 2          \* longitudes and latitudes range over 0..MaxCoord
MaxPoints == 2         \* points added to one DensityMap
MaxWidth == 3          \* DensityMap widths tried
MaxHeight == 2         \* DensityMap heights tried
MaxBuckets == 4        \* Bucketer bucket counts tried
MaxAbs == 3            \* Bucketer ranges and values lie in -MaxAbs..MaxAbs
EpsDen == 64           \* sys.float_info.epsilon is 1/EpsDen of a degree

----------------------------------------------------------------------------
(* Python values *)

None == <<>>
Some(v) == <<v>>
Get(o) == o[1]

RECURSIVE SumSeq(_)
SumSeq(s) == IF s = <<>> THEN 0 ELSE Head(s) + SumSeq(Tail(s))

RECURSIVE SumFun(_)
SumFun(f) ==
    IF DOMAIN f = {} THEN 0
    ELSE LET k == CHOOSE x \in DOMAIN f : TRUE
         IN f[k] + SumFun([x \in DOMAIN f \ {k} |-> f[x]])

\* sorted(S) for a set of integers
RECURSIVE SortedInts(_)
SortedInts(S) ==
    IF S = {} THEN <<>>
    ELSE LET m == CHOOSE x \in S : \A y \in S : x <= y
         IN <<m>> \o SortedInts(S \ {m})

\* d[k] += 1 on a defaultdict(int)
Incr(d, k) ==
    IF k \in DOMAIN d THEN [d EXCEPT ![k] = @ + 1]
    ELSE [x \in DOMAIN d \cup {k} |-> IF x = k THEN 1 ELSE d[x]]

\* str.strip(): leading and trailing blanks removed
RECURSIVE lstrip(_)
lstrip(s) == IF s # <<>> /\ Head(s) = " " THEN lstrip(Tail(s)) ELSE s

RECURSIVE rstrip(_)
rstrip(s) ==
    IF s # <<>> /\ s[Len(s)] = " " THEN rstrip(SubSeq(s, 1, Len(s) - 1)) ELSE s

strip(s) == rstrip(lstrip(s))

----------------------------------------------------------------------------
(* class MaxMin *)

MaxMin_init == [min |-> None, max |-> None]

MaxMin_valid(self) == self.min # None /\ self.min # None

\* MaxMin.add with the second comparison made against max: a faulty variant
MaxMin_add_WrongBound(self, value) ==
    IF ~MaxMin_valid(self) THEN [min |-> Some(value), max |-> Some(value)]
    ELSE [max |-> IF value > Get(self.max) THEN Some(value) ELSE self.max,
          min |-> IF value < Get(self.max) THEN Some(value) ELSE self.min]

MaxMin_add(self, value) ==
    IF ~MaxMin_valid(self) THEN [min |-> Some(value), max |-> Some(value)]
    ELSE [max |-> IF value > Get(self.max) THEN Some(value) ELSE self.max,
          min |-> IF value < Get(self.min) THEN Some(value) ELSE self.min]

----------------------------------------------------------------------------
(* class GeoInfo; a point is <<lon, lat>> *)

GeoInfo_init == [lon |-> MaxMin_init, lat |-> MaxMin_init]

GeoInfo_add(self, point) ==
    [lon |-> MaxMin_add(self.lon, point[1]),
     lat |-> MaxMin_add(self.lat, point[2])]

GeoInfo_valid(self) == MaxMin_valid(self.lon) /\ MaxMin_valid(self.lat)

GeoInfo_report(self) ==
    << <<"top left", self.lat.max, self.lon.min>>,
       <<"bottom right", self.lat.min, self.lon.max>> >>

----------------------------------------------------------------------------
(* class Bucketer *)

\* float(x) + sys.float_info.epsilon == float(x) for a whole number x: the sum
\* is rounded back to x as soon as the doubles around x are more than
\* 2 * epsilon apart (ties to even), which is from 2 upwards and from -3
\* downwards.
EpsilonAbsorbed(x) == x >= 2 \/ x <= -3

\* x + sys.float_info.epsilon, in units of 1/EpsDen
AddEpsilon(x) == IF EpsilonAbsorbed(x) THEN x * EpsDen ELSE x * EpsDen + 1

\* numpy.linspace(start, stop, num): num evenly spaced edges from start to stop,
\* both in units of 1/EpsDen; edge i is num[i] / den
linspace(start, stop, num) ==
    [num |-> [i \in 1..num |-> start * (num - 1) + (i - 1) * (stop - start)],
     den |-> EpsDen * (num - 1)]

\* numpy.digitize(value, bins) for increasing bins: the i with
\* bins[i-1] <= value < bins[i], which is the number of edges <= value
digitize(value, bins) ==
    Cardinality({i \in 1..Len(bins.num) : bins.num[i] <= value * bins.den})

Bucketer_init(min_val, max_val, bucket_count) ==
    [min_val |-> min_val,
     max_val |-> max_val,
     bucket_count |-> bucket_count,
     max_buckets |-> bucket_count - 1,
     bins |-> IF min_val = max_val
              THEN linspace((min_val - 1) * EpsDen, (max_val + 1) * EpsDen,
                            bucket_count + 1)
              ELSE linspace(min_val * EpsDen, AddEpsilon(max_val),
                            bucket_count + 1)]

\* Bucketer.bucket without the clamp to max_buckets: a faulty variant
Bucketer_bucket_NoClamp(self, value) == digitize(value, self.bins) - 1

Bucketer_bucket(self, value) ==
    LET result == digitize(value, self.bins) - 1
    IN IF result > self.max_buckets THEN self.max_buckets ELSE result

----------------------------------------------------------------------------
(* class DensityMap *)

DensityMap_init(width, height) ==
    [width |-> width, height |-> height, indent |-> <<>>,
     geo_info |-> GeoInfo_init, points |-> <<>>]

DensityMap_add(self, point) ==
    [self EXCEPT !.points = Append(@, point),
                 !.geo_info = GeoInfo_add(@, point)]

\* the indices with the latitude bucket used as the row, unflipped: a faulty
\* variant
DensityMap_cell_NoFlip(self, point) ==
    LET xb == Bucketer_init(Get(self.geo_info.lon.min),
                            Get(self.geo_info.lon.max), self.width)
        yb == Bucketer_init(Get(self.geo_info.lat.min),
                            Get(self.geo_info.lat.max), self.height)
    IN [y |-> Bucketer_bucket(yb, point[2]),
        x |-> Bucketer_bucket(xb, point[1])]

\* the (y, x) list indices to_counts computes for one point
DensityMap_cell(self, point) ==
    LET xb == Bucketer_init(Get(self.geo_info.lon.min),
                            Get(self.geo_info.lon.max), self.width)
        yb == Bucketer_init(Get(self.geo_info.lat.min),
                            Get(self.geo_info.lat.max), self.height)
    IN [y |-> self.height - 1 - Bucketer_bucket(yb, point[2]),
        x |-> Bucketer_bucket(xb, point[1])]

\* a Python list index: negative indices count from the end
InRange(i, n) == -n <= i /\ i < n
PyIndex(i, n) == IF i < 0 THEN i + n + 1 ELSE i + 1

\* results[y][x] += 1 for each point in turn; an index outside the list raises
RECURSIVE CountPoints(_, _, _)
CountPoints(self, points, acc) ==
    IF points = <<>> \/ acc.exc # "none" THEN acc
    ELSE LET c == DensityMap_cell(self, Head(points))
         IN IF InRange(c.y, self.height) /\ InRange(c.x, self.width)
            THEN CountPoints(self, Tail(points),
                   [acc EXCEPT !.results[PyIndex(c.y, self.height)]
                                        [PyIndex(c.x, self.width)] = @ + 1])
            ELSE [acc EXCEPT !.exc = "IndexError"]

DensityMap_to_counts(self) ==
    LET results == [y \in 1..self.height |-> [x \in 1..self.width |-> 0]]
    IN IF GeoInfo_valid(self.geo_info)
       THEN CountPoints(self, self.points, [exc |-> "none", results |-> results])
       ELSE [exc |-> "none", results |-> results]

\* max(s) for a non-empty list of integers
MaxSeq(s) == CHOOSE m \in {s[i] : i \in 1..Len(s)} : \A i \in 1..Len(s) : s[i] <= m

\* str(n) for n >= 0
DigitChars == <<"0", "1", "2", "3", "4", "5", "6", "7", "8", "9">>
RECURSIVE IntStr(_)
IntStr(n) ==
    IF n < 10 THEN <<DigitChars[n + 1]>>
    ELSE IntStr(n \div 10) \o <<DigitChars[(n % 10) + 1]>>

\* value_to_text without the test for 0, the division by a max_count of 0
\* shown in the cell: a faulty variant
value_to_text_NoBlank(value, max_count) ==
    IF max_count = 0 THEN <<"ZeroDivisionError">>
    ELSE IntStr((999999 * value) \div (100000 * max_count))

\* value_to_text scaling by 10 in place of 9.99999: a faulty variant
value_to_text_Ten(value, max_count) ==
    IF value = 0 THEN <<" ">>
    ELSE IntStr((10 * value) \div max_count)

\* str(int(9.99999 * value / max_count))
value_to_text(value, max_count) ==
    IF value = 0 THEN <<" ">>
    ELSE IntStr((999999 * value) \div (100000 * max_count))

\* "".join(ss)
RECURSIVE Join(_)
Join(ss) ==
    IF ss = <<>> THEN <<>>
    ELSE IF Len(ss) = 1 THEN ss[1]
    ELSE LET h == Len(ss) \div 2
         IN Join(SubSeq(ss, 1, h)) \o Join(SubSeq(ss, h + 1, Len(ss)))

Border(self) ==
    self.indent \o <<"+">> \o [i \in 1..self.width |-> "-"] \o <<"+">>

DensityMap_to_text(self) ==
    LET c == DensityMap_to_counts(self)
        max_count == MaxSeq([y \in 1..self.height |-> MaxSeq(c.results[y])])
        Row(row) == self.indent \o <<"|">>
                    \o Join([x \in 1..self.width |->
                               value_to_text(row[x], max_count)])
                    \o <<"|">>
    IN [exc |-> c.exc,
        output |-> IF c.exc # "none" THEN <<>>
                   ELSE <<Border(self)>>
                        \o [y \in 1..self.height |-> Row(c.results[y])]
                        \o <<Border(self)>>]

----------------------------------------------------------------------------
(* class Fields, class SenderInfo *)

EmptyDict == <<>>

\* a sentence, as the classes read it: type_id(), ['mmsi'], location(),
\* ['shipname'], ['destination']; each but type_id may be None
Sentence(type_id, mmsi, location, shipname, destination) ==
    [type_id |-> type_id, mmsi |-> mmsi, location |-> location,
     shipname |-> shipname, destination |-> destination]

\* self.values[key] = value
SetItem(d, key, value) ==
    [k \in DOMAIN d \cup {key} |-> IF k = key THEN value ELSE d[k]]

\* Fields.__setitem__ keeping the value a key already has: a variant
Fields_setitem_KeepFirst(values, key, value) ==
    IF value = None THEN [exc |-> "AttributeError", values |-> values]
    ELSE LET stripped == strip(Get(value))
         IN [exc |-> "none",
             values |-> IF key # "" /\ stripped # <<>> /\ key \notin DOMAIN values
                        THEN SetItem(values, key, Some(stripped))
                        ELSE values]

\* Fields.__setitem__; value.strip() raises AttributeError on None
Fields_setitem(values, key, value) ==
    IF value = None THEN [exc |-> "AttributeError", values |-> values]
    ELSE LET stripped == strip(Get(value))
         IN [exc |-> "none",
             values |-> IF key # "" /\ stripped # <<>> /\ Len(stripped) > 0
                        THEN SetItem(values, key, Some(stripped))
                        ELSE values]

SenderInfo_init ==
    [mmsi |-> None, sentence_count |-> 0, type_counts |-> EmptyDict,
     fields |-> EmptyDict]

\* SenderInfo.add: the object as add leaves it, and the exception it raised
SenderInfo_add(self, sentence) ==
    LET counted == [self EXCEPT
                      !.mmsi = IF self.mmsi = None THEN sentence.mmsi ELSE @,
                      !.sentence_count = @ + 1,
                      !.type_counts = Incr(@, sentence.type_id)]
        name == Fields_setitem(counted.fields, "shipname", sentence.shipname)
        dest == Fields_setitem(name.values, "destination", sentence.destination)
    IN IF sentence.type_id # 5 THEN [exc |-> "none", self |-> counted]
       ELSE IF name.exc # "none"
            THEN [exc |-> name.exc, self |-> [counted EXCEPT !.fields = name.values]]
            ELSE [exc |-> dest.exc, self |-> [counted EXCEPT !.fields = dest.values]]

TypeCountText(type_counts) ==
    LET ts == SortedInts(DOMAIN type_counts)
    IN [i \in 1..Len(ts) |-> <<ts[i], type_counts[ts[i]]>>]

\* sorted(self.fields): "destination" sorts before "shipname"
SortedFields(fields) ==
    SelectSeq(<<"destination", "shipname">>, LAMBDA f : f \in DOMAIN fields)

\* SenderInfo.report: the lines it prints, in order
SenderInfo_report(self) ==
    << <<"mmsi", self.mmsi>>,
       <<"sentences", self.sentence_count>>,
       <<"types", TypeCountText(self.type_counts)>> >>
    \o LET fs == SortedFields(self.fields)
       IN [i \in 1..Len(fs) |-> <<"field", fs[i], self.fields[fs[i]]>>]

----------------------------------------------------------------------------
(* class SentencesInfo *)

SentencesInfo_init ==
    [sentence_count |-> 0, type_counts |-> EmptyDict,
     sender_counts |-> EmptyDict, geo_info |-> GeoInfo_init]

SentencesInfo_add(self, sentence) ==
    [sentence_count |-> self.sentence_count + 1,
     type_counts |-> Incr(self.type_counts, sentence.type_id),
     sender_counts |-> Incr(self.sender_counts, sentence.mmsi),
     geo_info |-> IF sentence.location # None
                  THEN GeoInfo_add(self.geo_info, sentence.location)
                  ELSE self.geo_info]

\* SentencesInfo.report: the lines it prints, in order
SentencesInfo_report(self) ==
    << <<"Found", Cardinality(DOMAIN self.sender_counts), self.sentence_count>>,
       <<"type counts:">> >>
    \o LET ts == SortedInts(DOMAIN self.type_counts)
       IN [i \in 1..Len(ts) |-> <<"type", ts[i], self.type_counts[ts[i]]>>]
    \o << <<"">> >>
    \o GeoInfo_report(self.geo_info)

----------------------------------------------------------------------------
(* The inputs *)

Coords == 0..MaxCoord
Points == Coords \X Coords

\* sender identifiers: absent, or one of two identifiers (1 sorts before 2)
MMSIs == {None, Some(1), Some(2)}

\* what sentence['shipname'] and sentence['destination'] may give
Texts == {None, Some(<<>>), Some(<<" ">>), Some(<<"X">>), Some(<<"Y", " ">>)}

\* position reports (type 1), with or without a position
PositionReports(mmsis, points) ==
    {Sentence(1, m, l, None, None) : m \in mmsis, l \in {None} \cup points}

\* voyage data (type 5): no position, a name and a destination
VoyageData(mmsis, names, destinations) ==
    {Sentence(5, m, None, n, d) : m \in mmsis, n \in names, d \in destinations}

----------------------------------------------------------------------------
(* One MaxMin, fed values one at a time *)

IdleInfo ==
    /\ individual = FALSE /\ show_map = FALSE /\ stream = <<>>
    /\ sentences_info = SentencesInfo_init /\ sender_info = EmptyDict
    /\ map_info = DensityMap_init(1, 1)
    /\ pc = "idle" /\ status = "running" /\ sink = "open"
    /\ out = <<>> /\ todo = <<>> /\ keys = <<>>
IdleTracker == tracker = MaxMin_init /\ fed = <<>>
IdleBucketer == bucketer = Bucketer_init(0, 0, 1) /\ bcall = None
IdleMap == counts = None /\ text = None

InitMaxMin ==
    /\ tracker = MaxMin_init
    /\ fed = <<>>
    /\ IdleInfo /\ IdleBucketer /\ IdleMap

TrackerAdd ==
    \E value \in -MaxValue..MaxValue :
        /\ Len(fed) < MaxFed
        /\ tracker' = MaxMin_add(tracker, value)
        /\ fed' = Append(fed, value)
        /\ UNCHANGED <<infoVars, bucketerVars, mapVars>>

NextMaxMin == TrackerAdd

SpecMaxMin == InitMaxMin /\ [][NextMaxMin]_vars

----------------------------------------------------------------------------
(* One Bucketer, asked to bucket values *)

InitBucketer ==
    /\ \E min_val \in -MaxAbs..MaxAbs, max_val \in -MaxAbs..MaxAbs,
          bucket_count \in 1..MaxBuckets :
            /\ min_val <= max_val
            /\ bucketer = Bucketer_init(min_val, max_val, bucket_count)
    /\ bcall = None
    /\ IdleInfo /\ IdleTracker /\ IdleMap

BucketCall ==
    \E value \in -MaxAbs..MaxAbs :
        /\ bcall' = Some([value |-> value,
                          result |-> Bucketer_bucket(bucketer, value)])
        /\ UNCHANGED <<bucketer, infoVars, trackerVars, mapVars>>

NextBucketer == BucketCall

SpecBucketer == InitBucketer /\ [][NextBucketer]_vars

----------------------------------------------------------------------------
(* One DensityMap: points are added, then it is counted and rendered *)

InitMap ==
    /\ \E width \in 1..MaxWidth, height \in 1..MaxHeight :
            map_info = DensityMap_init(width, height)
    /\ counts = None /\ text = None
    /\ individual = FALSE /\ show_map = TRUE /\ stream = <<>>
    /\ sentences_info = SentencesInfo_init /\ sender_info = EmptyDict
    /\ pc = "idle" /\ status = "running" /\ sink = "open"
    /\ out = <<>> /\ todo = <<>> /\ keys = <<>>
    /\ IdleTracker /\ IdleBucketer

mapIdle == <<individual, show_map, stream, sentences_info, sender_info,
             pc, status, sink, out, todo, keys, trackerVars, bucketerVars>>

MapAdd ==
    \E point \in Points :
        /\ counts = None /\ text = None
        /\ Len(map_info.points) < MaxPoints
        /\ map_info' = DensityMap_add(map_info, point)
        /\ UNCHANGED <<counts, text, mapIdle>>

MapToCounts ==
    /\ counts = None
    /\ counts' = Some(DensityMap_to_counts(map_info))
    /\ UNCHANGED <<map_info, text, mapIdle>>

MapToText ==
    /\ text = None
    /\ text' = Some(DensityMap_to_text(map_info))
    /\ UNCHANGED <<map_info, counts, mapIdle>>

NextMap == MapAdd \/ MapToCounts \/ MapToText

SpecMap == InitMap /\ [][NextMap]_vars

----------------------------------------------------------------------------
(* The info command *)

DefaultWidth == 60
DefaultHeight == 20

\* the sentences the source may yield: position reports of every sender, with
\* no position or one of two, and voyage data with an absent or a given name
\* and an empty or a given destination
InfoSentences ==
    PositionReports(MMSIs, {<<0, 0>>, <<MaxCoord, 1>>})
    \cup VoyageData({None, Some(1)}, {None, Some(<<"X">>)},
                    {Some(<<>>), Some(<<"Y">>)})

\* wild_disregard_for letting the exception through: a faulty variant
wild_disregard_for_Reraise(e, raised) == raised

\* with wild_disregard_for(e): an exception e ends the process with exit(0),
\* any other exception goes on up and ends it with a traceback
wild_disregard_for(e, raised) == IF raised = e THEN "exit0" ELSE raised

\* sorted(sender_info) compares the keys with <, which raises TypeError when
\* one of several keys is None
SortRaises(S) == None \in S /\ Cardinality(S) > 1

RECURSIVE SortedKeys(_)
SortedKeys(S) ==
    IF S = {} THEN <<>>
    ELSE IF Cardinality(S) = 1 THEN <<CHOOSE k \in S : TRUE>>
    ELSE LET m == CHOOSE x \in S : \A y \in S : Get(x) <= Get(y)
         IN <<m>> \o SortedKeys(S \ {m})

\* sender_info[key] on the defaultdict(SenderInfo)
Lookup(d, key) == IF key \in DOMAIN d THEN d[key] ELSE SenderInfo_init

InitInfo ==
    /\ individual \in BOOLEAN
    /\ show_map \in BOOLEAN
    /\ stream = <<>>
    /\ sentences_info = SentencesInfo_init
    /\ sender_info = EmptyDict
    /\ map_info = DensityMap_init(DefaultWidth, DefaultHeight)
    /\ pc = "reading" /\ status = "running" /\ sink = "open"
    /\ out = <<>> /\ todo = <<>> /\ keys = <<>>
    /\ IdleTracker /\ IdleBucketer /\ IdleMap

infoIdle == <<trackerVars, bucketerVars, mapVars>>

\* one turn of the loop over the sentences (lines 305-312)
ReadSentence ==
    \E sentence \in InfoSentences :
        /\ pc = "reading" /\ status = "running"
        /\ Len(stream) < MaxSentences
        /\ stream' = Append(stream, sentence)
        /\ sentences_info' = SentencesInfo_add(sentences_info, sentence)
        /\ map_info' = IF show_map /\ sentence.location # None
                       THEN DensityMap_add(map_info, sentence.location)
                       ELSE map_info
        /\ IF individual
           THEN LET added == SenderInfo_add(Lookup(sender_info, sentence.mmsi),
                                            sentence)
                IN /\ sender_info' = SetItem(sender_info, sentence.mmsi, added.self)
                   /\ status' = IF added.exc = "none" THEN "running" ELSE added.exc
           ELSE UNCHANGED <<sender_info, status>>
        /\ UNCHANGED <<individual, show_map, pc, sink, out, todo, keys, infoIdle>>

\* the source is exhausted: sentences_info.report() starts (line 315)
EndOfStream ==
    /\ pc = "reading" /\ status = "running"
    /\ pc' = "fleet"
    /\ todo' = SentencesInfo_report(sentences_info)
    /\ UNCHANGED <<individual, show_map, stream, sentences_info, sender_info,
                   map_info, status, sink, out, keys, infoIdle>>

Printing == pc \in {"fleet", "map", "senders"} /\ status = "running" /\ todo # <<>>

\* one print() of the report in progress
PrintLine ==
    /\ Printing
    /\ out' = Append(out, Head(todo))
    /\ todo' = Tail(todo)
    /\ UNCHANGED <<individual, show_map, stream, sentences_info, sender_info,
                   map_info, pc, status, sink, keys, infoIdle>>

\* one print() raises BrokenPipeError, inside the with block (line 314)
BrokenPipe ==
    /\ Printing
    /\ sink' = "broken"
    /\ status' = wild_disregard_for("BrokenPipeError", "BrokenPipeError")
    /\ UNCHANGED <<individual, show_map, stream, sentences_info, sender_info,
                   map_info, pc, out, todo, keys, infoIdle>>

\* sentences_info.report() has returned: map_info.show(), if asked for, builds
\* to_text() and prints it with one print() (lines 316-317, 292-293)
ShowMap ==
    /\ pc = "fleet" /\ status = "running" /\ todo = <<>>
    /\ IF show_map
       THEN LET t == DensityMap_to_text(map_info)
            IN IF t.exc = "none"
               THEN /\ pc' = "map"
                    /\ todo' = << <<"map", t.output>> >>
                    /\ UNCHANGED status
               ELSE /\ status' = wild_disregard_for("BrokenPipeError", t.exc)
                    /\ UNCHANGED <<pc, todo>>
       ELSE /\ pc' = "sort"
            /\ UNCHANGED <<todo, status>>
    /\ UNCHANGED <<individual, show_map, stream, sentences_info, sender_info,
                   map_info, sink, out, keys, infoIdle>>

\* map_info.show() has returned
MapShown ==
    /\ pc = "map" /\ status = "running" /\ todo = <<>>
    /\ pc' = "sort"
    /\ UNCHANGED <<individual, show_map, stream, sentences_info, sender_info,
                   map_info, status, sink, out, todo, keys, infoIdle>>

\* if individual: for mmsi in sorted(sender_info) (lines 319-320)
SortSenders ==
    /\ pc = "sort" /\ status = "running"
    /\ IF ~individual
       THEN /\ pc' = "done" /\ status' = "exit0"
            /\ UNCHANGED keys
       ELSE IF SortRaises(DOMAIN sender_info)
            THEN /\ status' = wild_disregard_for("BrokenPipeError", "TypeError")
                 /\ UNCHANGED <<pc, keys>>
            ELSE /\ keys' = SortedKeys(DOMAIN sender_info)
                 /\ pc' = "senders"
                 /\ UNCHANGED status
    /\ UNCHANGED <<individual, show_map, stream, sentences_info, sender_info,
                   map_info, sink, out, todo, infoIdle>>

\* sender_info[mmsi].report() for the next key (line 321)
ReportSender ==
    /\ pc = "senders" /\ status = "running" /\ todo = <<>> /\ keys # <<>>
    /\ todo' = SenderInfo_report(Lookup(sender_info, Head(keys)))
    /\ keys' = Tail(keys)
    /\ UNCHANGED <<individual, show_map, stream, sentences_info, sender_info,
                   map_info, pc, status, sink, out, infoIdle>>

\* the loop over the senders is over: info returns
Finish ==
    /\ pc = "senders" /\ status = "running" /\ todo = <<>> /\ keys = <<>>
    /\ pc' = "done" /\ status' = "exit0"
    /\ UNCHANGED <<individual, show_map, stream, sentences_info, sender_info,
                   map_info, sink, out, todo, keys, infoIdle>>

Next ==
    \/ ReadSentence
    \/ EndOfStream
    \/ PrintLine
    \/ BrokenPipe
    \/ ShowMap
    \/ MapShown
    \/ SortSenders
    \/ ReportSender
    \/ Finish

Spec == InitInfo /\ [][Next]_vars

----------------------------------------------------------------------------
(* One SenderInfo, the one of sender 1, fed that sender's sentences as the    *)
(* loop of info feeds them: an exception add raises ends the run             *)

SenderSentences ==
    PositionReports({Some(1)}, {<<0, 0>>}) \cup VoyageData({Some(1)}, Texts, Texts)

InitSender ==
    /\ individual = TRUE /\ show_map = FALSE /\ stream = <<>>
    /\ sentences_info = SentencesInfo_init
    /\ sender_info = EmptyDict
    /\ map_info = DensityMap_init(1, 1)
    /\ pc = "reading" /\ status = "running" /\ sink = "open"
    /\ out = <<>> /\ todo = <<>> /\ keys = <<>>
    /\ IdleTracker /\ IdleBucketer /\ IdleMap

SenderAdd ==
    \E sentence \in SenderSentences :
        /\ status = "running"
        /\ Len(stream) < MaxSentences
        /\ stream' = Append(stream, sentence)
        /\ LET added == SenderInfo_add(Lookup(sender_info, sentence.mmsi), sentence)
           IN /\ sender_info' = SetItem(sender_info, sentence.mmsi, added.self)
              /\ status' = IF added.exc = "none" THEN "running" ELSE added.exc
        /\ UNCHANGED <<individual, show_map, sentences_info, map_info, pc, sink,
                       out, todo, keys, infoIdle>>

NextSender == SenderAdd

SpecSender == InitSender /\ [][NextSender]_vars

----------------------------------------------------------------------------
(* Properties                                                                *)

Range(s) == {s[i] : i \in 1..Len(s)}
Last(s) == s[Len(s)]

\* ---- C1 ----
\* the value sentence i of the stream gives for a field, blanks stripped
Stripped(sentence, field) ==
    IF sentence[field] = None THEN None ELSE Some(strip(Get(sentence[field])))

NonEmpty(sentence, field) ==
    /\ sentence.type_id = 5
    /\ Stripped(sentence, field) # None
    /\ Stripped(sentence, field) # Some(<<>>)

\* add reaches the assignment of a field only past the fields assigned before it
Assigned(sentence, field) ==
    /\ NonEmpty(sentence, field)
    /\ field = "destination" => sentence.shipname # None

StoredField(field) ==
    LET fields == Lookup(sender_info, Some(1)).fields
    IN IF field \in DOMAIN fields THEN fields[field] ELSE None

FirstNonEmpty(field) ==
    LET is == {i \in 1..Len(stream) : NonEmpty(stream[i], field)}
    IN IF is = {} THEN None
       ELSE Stripped(stream[CHOOSE i \in is : \A j \in is : i <= j], field)

LastAssigned(field) ==
    LET is == {i \in 1..Len(stream) : Assigned(stream[i], field)}
    IN IF is = {} THEN None
       ELSE Stripped(stream[CHOOSE i \in is : \A j \in is : i >= j], field)

DescriptiveFields == {"shipname", "destination"}

TrueMin(s) == CHOOSE m \in Range(s) : \A x \in Range(s) : m <= x
TrueMax(s) == CHOOSE m \in Range(s) : \A x \in Range(s) : m >= x

\* C2: after any sequence of adds, in any order, min and max are the true
\* minimum and maximum of the values added, and valid() is true iff at least
\* one value has been added.
C2_ExtentIsTrueMinMax ==
    /\ MaxMin_valid(tracker) <=> fed # <<>>
    /\ fed # <<>> => /\ tracker.min = Some(TrueMin(fed))
                     /\ tracker.max = Some(TrueMax(fed))

\* three values were added, the largest neither first nor last, the least last
C2_Witness ==
    /\ Len(fed) >= 3
    /\ fed[1] = 0 /\ fed[2] = MaxValue /\ fed[3] = -1
    /\ tracker = [min |-> Some(-1), max |-> Some(MaxValue)]

\* ---- C4 ----
\* C4: every value of [min_val, max_val] is bucketed into 0..bucket_count-1;
\* min_val into 0 and max_val into bucket_count-1 when min_val < max_val; in
\* the degenerate case min_val = max_val the bucket of min_val is in range.
C4_BucketInRange ==
    bcall # None =>
        LET call == Get(bcall)
            b == bucketer
        IN (b.min_val <= call.value /\ call.value <= b.max_val) =>
              /\ call.result \in 0..(b.bucket_count - 1)
              /\ b.min_val < b.max_val /\ call.value = b.min_val
                    => call.result = 0
              /\ b.min_val < b.max_val /\ call.value = b.max_val
                    => call.result = b.bucket_count - 1

\* max_val itself was bucketed, its epsilon lost in the rounding
C4_Witness ==
    /\ bcall # None
    /\ bucketer.min_val < bucketer.max_val
    /\ EpsilonAbsorbed(bucketer.max_val)
    /\ bucketer.bucket_count > 1
    /\ Get(bcall).value = bucketer.max_val
    /\ Get(bcall).result = bucketer.bucket_count - 1

\* ---- C6 ----
Repeat(c, n) == [i \in 1..n |-> c]

\* C6: a DensityMap no point was added to renders, without raising, as height
\* rows of width blanks between "|", under and over a "+---+" border line.
C6_EmptyMapRendersBlank ==
    (text # None /\ map_info.points = <<>>) =>
        LET t == Get(text)
            w == map_info.width
            h == map_info.height
        IN /\ t.exc = "none"
           /\ Len(t.output) = h + 2
           /\ t.output[1] = <<"+">> \o Repeat("-", w) \o <<"+">>
           /\ t.output[h + 2] = <<"+">> \o Repeat("-", w) \o <<"+">>
           /\ \A y \in 1..h : t.output[y + 1] = <<"|">> \o Repeat(" ", w) \o <<"|">>

\* an empty map of more than one row and column was rendered
C6_Witness ==
    /\ text # None
    /\ map_info.points = <<>>
    /\ map_info.width > 1 /\ map_info.height > 1
    /\ Len(Get(text).output) = map_info.height + 2

\* ---- C9 ----
\* the grid cell (row, column, from 1) a point is counted in
CellOf(point) ==
    LET c == DensityMap_cell(map_info, point)
    IN <<c.y + 1, c.x + 1>>

\* the cells of the points added, in order
CellsOfPoints == [i \in 1..Len(map_info.points) |-> CellOf(map_info.points[i])]

\* how many of the cells cs are the cell
PointsIn(cs, cell) == Cardinality({i \in 1..Len(cs) : cs[i] = cell})

Cells == (1..map_info.height) \X (1..map_info.width)

\* C9: in the rendering of a map with points, every cell holding the maximum
\* count shows "9" and every cell holding no point shows a blank; so when all
\* points fall in one cell, that cell shows "9" and all others are blank.
C9_MaxIsNineZeroIsBlank ==
    (text # None /\ map_info.points # <<>>) =>
        LET t == Get(text)
            cs == CellsOfPoints
            n == [c \in Cells |-> PointsIn(cs, c)]
            most == CHOOSE m \in {n[c] : c \in Cells} : \A c \in Cells : n[c] <= m
        IN /\ t.exc = "none"
           /\ \A y \in 1..map_info.height :
                 Len(t.output[y + 1]) = map_info.width + 2
           /\ \A c \in Cells :
                 /\ n[c] = most => t.output[c[1] + 1][c[2] + 1] = "9"
                 /\ n[c] = 0 => t.output[c[1] + 1][c[2] + 1] = " "

\* several points, all in one cell of a grid of several cells, were rendered
C9_Witness ==
    /\ text # None
    /\ Len(map_info.points) >= 2
    /\ map_info.width > 1
    /\ \E c \in Cells :
          /\ PointsIn(CellsOfPoints, c) = Len(map_info.points)
          /\ Get(text).output[c[1] + 1][c[2] + 1] = "9"

\* ---- C10 ----
\* C10: to_counts puts every point in exactly one cell, at column
\* lon_bucketer.bucket(lon) in 0..width-1 and row height-1-lat_bucketer.bucket(lat)
\* in 0..height-1, so the counts sum to the number of points; the greatest
\* latitude is counted in row 0 and the least in row height-1 when they differ.
C10_EveryPointInOneCell ==
    counts # None =>
        LET c == Get(counts)
            ps == map_info.points
            lats == {ps[i][2] : i \in 1..Len(ps)}
        IN /\ c.exc = "none"
           /\ \A i \in 1..Len(ps) :
                 LET cell == DensityMap_cell(map_info, ps[i])
                 IN /\ cell.x \in 0..(map_info.width - 1)
                    /\ cell.y \in 0..(map_info.height - 1)
                    /\ Cardinality(lats) > 1 /\ (\A l \in lats : l <= ps[i][2])
                          => cell.y = 0
                    /\ Cardinality(lats) > 1 /\ (\A l \in lats : l >= ps[i][2])
                          => cell.y = map_info.height - 1
           /\ LET cs == CellsOfPoints
              IN \A cell \in Cells : c.results[cell[1]][cell[2]] = PointsIn(cs, cell)
           /\ SumSeq([y \in 1..map_info.height |-> SumSeq(c.results[y])]) = Len(ps)

\* two points of different latitudes and longitudes were counted
C10_Witness ==
    /\ counts # None
    /\ Len(map_info.points) >= 2
    /\ map_info.height > 1 /\ map_info.width > 1
    /\ map_info.points[1][2] < map_info.points[2][2]
    /\ map_info.points[1][1] < map_info.points[2][1]
    /\ EpsilonAbsorbed(map_info.points[2][1])
    /\ Get(counts).results[1][map_info.width] = 1
    /\ Get(counts).results[map_info.height][1] = 1

\* ---- C3 ----
\* the sender identifiers the sentences read so far carry
Identifiers == {stream[i].mmsi : i \in 1..Len(stream)} \ {None}

\* C3: after every prefix of the stream, of N sentences carrying K distinct
\* sender identifiers, the fleet aggregator holds (and reports) K senders and N
\* sentences, and its per-type counts and its per-sender counts each sum to N.
C3_FleetCounts ==
    /\ sentences_info.sentence_count = Len(stream)
    /\ Cardinality(DOMAIN sentences_info.sender_counts) = Cardinality(Identifiers)
    /\ SumFun(sentences_info.type_counts) = Len(stream)
    /\ SumFun(sentences_info.sender_counts) = Len(stream)
    /\ out # <<>> => out[1] = <<"Found", Cardinality(Identifiers), Len(stream)>>

\* ---- C5 ----
FieldOf(senders, mmsi, field) ==
    LET fields == Lookup(senders, mmsi).fields
    IN IF field \in DOMAIN fields THEN fields[field] ELSE None

AbsentOrEmpty(sentence, field) ==
    sentence[field] = None \/ strip(Get(sentence[field])) = <<>>

\* C5: reading a sentence without a position leaves the extents and the points
\* as they were and still counts the sentence; reading a voyage-data sentence
\* whose name or destination is absent or empty raises nothing and leaves that
\* field's stored value as it was.
C5_AbsentDataSkipped ==
    [][stream' # stream =>
         LET sentence == Last(stream')
         IN /\ sentence.location = None =>
                  /\ sentences_info'.geo_info = sentences_info.geo_info
                  /\ map_info' = map_info
                  /\ sentences_info'.sentence_count = sentences_info.sentence_count + 1
            /\ (individual /\ sentence.type_id = 5) =>
                  \A field \in DescriptiveFields :
                      AbsentOrEmpty(sentence, field) =>
                          /\ status' = "running"
                          /\ FieldOf(sender_info', sentence.mmsi, field)
                                = FieldOf(sender_info, sentence.mmsi, field)
      ]_vars

\* ---- C7 ----
\* C7: once a print of the report has raised BrokenPipeError, the command has
\* ended with status 0 and does nothing more: no further line is printed.
C7_BrokenSinkExitsZero ==
    sink = "broken" => status = "exit0" /\ ~ENABLED Next

\* the sink broke in the middle of a sender's report, other lines still due
C7_Witness ==
    /\ sink = "broken"
    /\ status = "exit0"
    /\ pc = "senders"
    /\ Len(todo) > 1
    /\ keys # <<>>
    /\ out # <<>>

\* ---- C8 ----
Observed == {stream[i].mmsi : i \in 1..Len(stream)}

\* the sender identifiers of the sender reports in the lines, in order
Headers(lines) ==
    LET hs == SelectSeq(lines, LAMBDA l : l[1] = "mmsi")
    IN [i \in 1..Len(hs) |-> hs[i][2]]

\* C8: nothing is printed while sentences are read; and when the command has
\* ended after the end of the stream, its sink intact, it has printed the fleet
\* summary, then the map if asked for, then, if asked for, one report per
\* observed sender, each once, the identifiers ascending.
C8_RenderOrder ==
    /\ pc = "reading" => out = <<>>
    /\ (pc # "reading" /\ status # "running" /\ sink = "open") =>
          LET fleet == SentencesInfo_report(sentences_info)
              n == Len(fleet) + (IF show_map THEN 1 ELSE 0)
              rest == SubSeq(out, n + 1, Len(out))
              hs == Headers(rest)
          IN /\ Len(out) >= n
             /\ SubSeq(out, 1, Len(fleet)) = fleet
             /\ show_map => out[n][1] = "map"
             /\ ~individual => rest = <<>>
             /\ individual =>
                   /\ Len(hs) = Cardinality(Observed)
                   /\ \A m \in Observed : \E i \in 1..Len(hs) : hs[i] = m
                   /\ \A i \in 1..Len(hs) : \A j \in (i + 1)..Len(hs) :
                         (hs[i] # None /\ hs[j] # None) => Get(hs[i]) < Get(hs[j])
                   /\ rest # <<>> => rest[1][1] = "mmsi"

====
